---------------------------- MODULE Spec2Model ----------------------------
(***************************************************************************)
(* Geographically weighted regression (pysal.contrib.gwr): the model        *)
(* object GWR (construction, _build_W, fit's calibration loop), the         *)
(* results object GWRResults (variance estimators, corrected alpha) and     *)
(* the cached diagnostics of GLMResults.                                    *)
(*                                                                          *)
(* Numbers are binary floating point values with a MantBits-bit             *)
(* significand, round-to-nearest-even, and the three IEEE specials NaN,     *)
(* +Inf, -Inf.  The exponent is unbounded (no overflow, no subnormals) and   *)
(* zero is unsigned.  numpy's default error state is modelled: a division   *)
(* by zero or an invalid operation on float64 values returns Inf or NaN     *)
(* (with a warning), it does not raise.                                     *)
(***************************************************************************)
EXTENDS Integers, Sequences, FiniteSets, TLC

\* ------------------------------------------------------------- bounds
\* number of observations = number of calibration locations (self.n)
N == 2
\* width of the significand of the modelled floating point format
MantBits == 4

\* --------------------------------------------------- floating point
RECURSIVE Pow2(_)
Pow2(n) == IF n <= 0 THEN 1 ELSE 2 * Pow2(n - 1)

Abs(x) == IF x < 0 THEN -x ELSE x
Sgn(x) == IF x < 0 THEN -1 ELSE IF x = 0 THEN 0 ELSE 1

NaN  == [k |-> "nan", m |-> 0, e |-> 0]
PInf == [k |-> "inf", m |-> 1, e |-> 0]
NInf == [k |-> "inf", m |-> -1, e |-> 0]
InfOf(s) == IF s < 0 THEN NInf ELSE PInf

\* the canonical finite value m * 2^e: m odd, or m = 0 and e = 0
RECURSIVE Fin(_, _)
Fin(m, e) == IF m = 0 THEN [k |-> "fin", m |-> 0, e |-> 0]
             ELSE IF m % 2 = 0 THEN Fin(m \div 2, e + 1)
             ELSE [k |-> "fin", m |-> m, e |-> e]

IsNaN(x) == x.k = "nan"
IsInf(x) == x.k = "inf"
IsFinite(x) == x.k = "fin"
IsZero(x) == x.k = "fin" /\ x.m = 0

\* number of low bits of the natural a that do not fit into MantBits bits
RECURSIVE Excess(_)
Excess(a) == IF a < Pow2(MantBits) THEN 0 ELSE 1 + Excess(a \div 2)

\* round s * a * 2^e (a a natural, sticky: a non-zero part below a's last
\* bit was cut off) to MantBits bits, nearest, ties to even
FRound(s, a, e, sticky) ==
    LET x == Excess(a)
        q == a \div Pow2(x)
        r == a % Pow2(x)
        half == Pow2(x - 1)
        up == /\ x > 0
              /\ \/ r > half
                 \/ r = half /\ (sticky \/ q % 2 = 1)
    IN  Fin(s * (IF up THEN q + 1 ELSE q), e + x)

\* the shift that gives the quotient n * 2^t \div d more than MantBits bits
RECURSIVE QShift(_, _)
QShift(n, d) == IF n >= d * Pow2(MantBits) THEN 0 ELSE 1 + QShift(2 * n, d)

\* the float nearest to the rational s * n / d * 2^e  (n >= 0, d > 0)
FQuot(s, n, d, e) ==
    IF n = 0 THEN Fin(0, 0)
    ELSE LET t == QShift(n, d)
             a == n * Pow2(t)
         IN  FRound(s, a \div d, e - t, a % d # 0)

\* a Python float literal n/d, an integer converted to float
FLit(n, d) == FQuot(Sgn(n), Abs(n), d, 0)
FInt(n) == FRound(Sgn(n), Abs(n), 0, FALSE)

FNeg(x) == IF IsNaN(x) THEN NaN ELSE [x EXCEPT !.m = -x.m]

FMul(x, y) ==
    IF IsNaN(x) \/ IsNaN(y) THEN NaN
    ELSE IF IsInf(x) \/ IsInf(y)
         THEN IF IsZero(x) \/ IsZero(y) THEN NaN ELSE InfOf(Sgn(x.m) * Sgn(y.m))
    ELSE FRound(Sgn(x.m) * Sgn(y.m), Abs(x.m) * Abs(y.m), x.e + y.e, FALSE)

FDiv(x, y) ==
    IF IsNaN(x) \/ IsNaN(y) THEN NaN
    ELSE IF IsInf(x) THEN IF IsInf(y) THEN NaN
                          ELSE InfOf(x.m * (IF y.m < 0 THEN -1 ELSE 1))
    ELSE IF IsInf(y) THEN Fin(0, 0)
    ELSE IF IsZero(y) THEN IF IsZero(x) THEN NaN ELSE InfOf(Sgn(x.m))
    ELSE FQuot(Sgn(x.m) * Sgn(y.m), Abs(x.m), Abs(y.m), x.e - y.e)

FAdd(x, y) ==
    IF IsNaN(x) \/ IsNaN(y) THEN NaN
    ELSE IF IsInf(x) THEN IF IsInf(y) /\ x.m # y.m THEN NaN ELSE x
    ELSE IF IsInf(y) THEN y
    ELSE LET e == IF IsZero(x) THEN y.e ELSE IF IsZero(y) THEN x.e
                  ELSE IF x.e < y.e THEN x.e ELSE y.e
             v == x.m * Pow2(x.e - e) + y.m * Pow2(y.e - e)
         IN  FRound(Sgn(v), Abs(v), e, FALSE)

FSub(x, y) == FAdd(x, FNeg(y))

\* x <= 0, x > 0 as Python compares floats (every comparison with NaN is False)
FLeZero(x) == ~IsNaN(x) /\ x.m <= 0
FGtZero(x) == ~IsNaN(x) /\ x.m > 0

\* x < y as Python compares floats
FLt(x, y) ==
    /\ ~IsNaN(x) /\ ~IsNaN(y)
    /\ IF IsInf(x) \/ IsInf(y)
       THEN x # y /\ (x = NInf \/ y = PInf)
       ELSE FSub(x, y).m < 0

\* np.sqrt on a float64: NaN (with a warning) below zero
FSqrt(x) ==
    IF IsNaN(x) THEN NaN
    ELSE IF IsInf(x) THEN IF x.m > 0 THEN PInf ELSE NaN
    ELSE IF x.m < 0 THEN NaN
    ELSE IF x.m = 0 THEN x
    ELSE LET t == 2 * MantBits + (IF x.e % 2 = 0 THEN 0 ELSE 1)
             a == x.m * Pow2(t)
             r == CHOOSE q \in 0..Pow2(2 * MantBits + 1) :
                      q * q <= a /\ a < (q + 1) * (q + 1)
         IN  FRound(1, r, (x.e - t) \div 2, r * r # a)


\* ----------------------------------------------------- vectors, data
\* number of columns of the design matrix (self.k)
K == 1

Loc == 0..(N - 1)
Col == 0..(K - 1)

F0 == FInt(0)
F1 == FInt(1)

\* left-to-right float sum of f[0], ..., f[n-1]
RECURSIVE SumF(_, _)
SumF(f, n) == IF n = 0 THEN F0 ELSE FAdd(SumF(f, n - 1), f[n - 1])

\* np.zeros((n, 1)), np.zeros((n, m))
ZerosVec(D) == [a \in D |-> F0]
ZerosMat(D, E) == [a \in D |-> [b \in E |-> F0]]

\* the observations the model object is built over: X[i] is row i of the
\* design matrix, y the response
XData == [i \in Loc |-> [c \in Col |-> FInt(1)]]
YData == [i \in Loc |-> FInt(i + 1)]

\* kernel names that are keys of both lookup tables fk and ak
Kernels == {"gaussian", "bisquare", "exponential"}
\* kernel names the model is constructed with
KernelArgs == {"bisquare", "gaussian", "boxcar"}
Families == {"Gaussian", "Poisson"}

\* kernels.fix_* / adapt_*: the n*n weight matrix of the kernel functions
KernelW(fx, kern) ==
    [i \in Loc |-> [j \in Loc |-> IF fx /\ i # j THEN F0 ELSE F1]]

\* a comparison that keeps the case of the characters
LowerKeepsCase(s) == s
\* a Python string as its characters; str.lower() on each of them
Lower(s) == [p \in DOMAIN s |->
               CASE s[p] = "I" -> "i" [] s[p] = "W" -> "w"
                 [] s[p] = "L" -> "l" [] s[p] = "S" -> "s"
                 [] s[p] = "N" -> "n" [] s[p] = "R" -> "r"
                 [] OTHER -> s[p]]
IWLS == <<"i", "w", "l", "s">>
SolveArgs == {IWLS, <<"I", "W", "L", "S">>, <<"n", "r">>}

\* ------------------------------------------------------ the solver
\* iwls(y, X, family, offset, y_fix, ini_params, tol, max_iter, wi=wi):
\* what one call returns.  rslt[0] is beta, rslt[1] the predicted vector,
\* rslt[2] the linear predictor, rslt[3] the final weights, rslt[4] the
\* working response z, rslt[5] the k*n block C = (XtWX)^-1 XtW.  The call
\* gets no location index: an exception it raises names no location.
NoLoc == -1
ZRow(t, i) == [j \in Loc |-> IF t = "z0" THEN (IF j = 0 THEN F0 ELSE FInt(2))
                             ELSE FInt(7)]
CMat(t, i) == [c \in Col |-> [j \in Loc |->
                 IF t = "unit" THEN (IF j = i THEN F1 ELSE F0) ELSE FInt(3)]]
SolverOk(i) ==
    { [ok |-> TRUE,
       beta |-> [c \in Col |-> FInt(i + 1)],
       mu |-> [j \in Loc |-> F1],
       v |-> [j \in Loc |-> F1],
       w |-> [j \in Loc |-> FInt(1 + (i % 2))],
       z |-> ZRow(zt, i),
       C |-> CMat(ct, i)] : zt \in {"sevens", "z0"}, ct \in {"unit", "threes"} }
SolverFailure == [ok |-> FALSE, exc |-> [kind |-> "LinAlgError", loc |-> NoLoc]]
SolverResults(i) == SolverOk(i) \cup {SolverFailure}

VARIABLES
    pc,        \* where the model object is in its life
    model,     \* the fields of the GWR object
    flagArg,   \* the sigma2_v1 argument of the constructor, "unset" if none
    i,         \* fit(): the loop variable
    arr,       \* fit(): the local arrays params, predy, v, w, z, R, S, CCT
    calls,     \* the locations iwls has been called for, in call order
    args,      \* the arguments of each of these calls, in call order
    rs,        \* what each of these calls returned or raised
    err,       \* the exception that left the constructor or fit()
    res,       \* the GWRResults object fit() returned
    cache,     \* its _cache
    ftv,       \* the last call of its filter_tvals and how it ended
    glm,       \* a GLMResults object (glm.py)
    gcache,    \* its _cache
    ncomp,     \* how often each of its diagnostics has been computed
    gout       \* the last access to one of them: a read and what it
               \* returned, or an assignment and its value

gvars == <<glm, gcache, ncomp, gout>>
mvars == <<pc, model, flagArg, i, arr, calls, args, rs, err, res, cache, ftv>>
vars == <<pc, model, flagArg, i, arr, calls, args, rs, err, res, cache, ftv, glm, gcache, ncomp, gout>>

NoModel == [built |-> FALSE]
NoArr == [alloc |-> FALSE]
NoErr == [kind |-> "none", loc |-> NoLoc]
NoRes == [made |-> FALSE]
NoCache == <<>>
NoCall == [called |-> FALSE, alpha |-> FInt(0), exc |-> "none"]

\* the diagnostics of GLMResults that are cached and can be assigned
GKeys == {"utu", "sig2n", "sig2n_k", "vm", "std_err", "dev_u"}
NoAccess == [op |-> "none", key |-> "none", val |-> F0]
\* no GLMResults object has been made
NoGlm ==
    /\ glm = [made |-> FALSE]
    /\ gcache = <<>>
    /\ ncomp = [key \in GKeys |-> 0]
    /\ gout = NoAccess

\* the locations at which iwls raised
Failed == {l \in DOMAIN rs : ~rs[l].ok}

\* ------------------------------------------------- GWR.__init__
\* the default of the sigma2_v1 parameter
SigmaFlag(arg) == IF arg = "unset" THEN FALSE ELSE arg = "true"

\* _build_W with points=None: the weight matrix, or the exception raised
BuildW(fx, kern) ==
    IF fx
    THEN IF kern \in Kernels
         THEN [ok |-> TRUE, W |-> KernelW(fx, kern)]
         ELSE [ok |-> FALSE, exc |-> [kind |-> "TypeError", loc |-> NoLoc]]
    ELSE IF kern \in Kernels
         THEN [ok |-> TRUE, W |-> KernelW(fx, kern)]
         ELSE [ok |-> FALSE, exc |-> [kind |-> "KeyError", loc |-> NoLoc]]

\* the fields of a constructed model
NewModel(kern, fx, fam, sarg, W) ==
    [built |-> TRUE, n |-> N, k |-> K, y |-> YData, X |-> XData, family |-> fam,
     offset |-> "offset", y_fix |-> "y_fix", bw |-> "bw",
     sigma2_v1 |-> SigmaFlag(sarg), kernel |-> kern, fixed |-> fx,
     fit_params |-> <<>>, W |-> W]

Construct ==
    /\ pc = "new"
    /\ \E kern \in KernelArgs, fx \in BOOLEAN, fam \in Families,
          sarg \in {"unset", "true", "false"} :
         LET bw == BuildW(fx, kern)
         IN  /\ flagArg' = sarg
             /\ IF bw.ok
                THEN /\ model' = NewModel(kern, fx, fam, sarg, bw.W)
                     /\ pc' = "built"
                     /\ err' = err
                ELSE /\ model' = model
                     /\ pc' = "ctor_raised"
                     /\ err' = bw.exc
    /\ UNCHANGED <<i, arr, calls, args, rs, res, cache, ftv, gvars>>

\* ------------------------------------------------------ GWR.fit
\* the max_iter arguments fit() is called with (20 is the default)
MaxIterArgs == {20, 5}

FitParams(ini, tol, maxit, solve) ==
    [ini_params |-> ini, tol |-> tol, max_iter |-> maxit, solve |-> solve]

\* np.dot(self.X[i], rslt[5]): a row of n values
DotXC(x, C) == [j \in Loc |-> SumF([c \in Col |-> FMul(x[c], C[c][j])], K)]
\* np.diag(np.dot(rslt[5], rslt[5].T)): k values
DiagCCt(C) == [c \in Col |-> SumF([j \in Loc |-> FMul(C[c][j], C[c][j])], N)]

\* a loop body that assigns the final weight to all of w
StepWriteBroadcast(a, l, xl, rslt) ==
    LET ri == DotXC(xl, rslt.C)
    IN  [a EXCEPT !.params[l] = rslt.beta,
                  !.predy[l] = rslt.mu[l],
                  !.v[l] = rslt.v[l],
                  !.w = [j \in Loc |-> rslt.w[l]],
                  !.z[l] = rslt.z,
                  !.R[l] = ri,
                  !.S[l] = [j \in Loc |-> FMul(ri[j], rslt.z[j])],
                  !.CCT[l] = DiagCCt(rslt.C)]
\* a loop body that stores the leverage row itself
StepWriteLeverage(a, l, xl, rslt) ==
    LET ri == DotXC(xl, rslt.C)
    IN  [a EXCEPT !.params[l] = rslt.beta,
                  !.predy[l] = rslt.mu[l],
                  !.v[l] = rslt.v[l],
                  !.w[l] = rslt.w[l],
                  !.z[l] = rslt.z,
                  !.R[l] = ri,
                  !.S[l] = ri,
                  !.CCT[l] = DiagCCt(rslt.C)]
\* the body of the loop for location l, the solver having returned rslt
StepWrite(a, l, xl, rslt) ==
    LET ri == DotXC(xl, rslt.C)
    IN  [a EXCEPT !.params[l] = rslt.beta,
                  !.predy[l] = rslt.mu[l],
                  !.v[l] = rslt.v[l],
                  !.w[l] = rslt.w[l],
                  !.z[l] = rslt.z,
                  !.R[l] = ri,
                  !.S[l] = [j \in Loc |-> FMul(ri[j], rslt.z[j])],
                  !.CCT[l] = DiagCCt(rslt.C)]

\* a rescaling that multiplies by z once more
RescaleByZ(S, z) == [a \in Loc |-> [b \in Loc |-> FMul(S[a][b], z[a][b])]]
\* a rescaling that masks the zeros of z
RescaleMasked(S, z) ==
    [a \in Loc |-> [b \in Loc |-> IF IsZero(z[a][b]) THEN F0
                                  ELSE FMul(S[a][b], FDiv(F1, z[a][b]))]]
\* S = S * (1.0/z)
Rescale(S, z) == [a \in Loc |-> [b \in Loc |-> FMul(S[a][b], FDiv(F1, z[a][b]))]]

\* the arrays fit() allocates before the loop
FreshArrays ==
    [alloc |-> TRUE,
     params |-> ZerosMat(Loc, Col), predy |-> ZerosVec(Loc),
     v |-> ZerosVec(Loc), w |-> ZerosVec(Loc),
     z |-> ZerosMat(Loc, Loc), S |-> ZerosMat(Loc, Loc),
     R |-> ZerosMat(Loc, Loc), CCT |-> ZerosMat(Loc, Col)]

\* a fit() that builds the weight matrix again, for the other kind of
\* bandwidth
FitRebuildsW ==
    /\ pc = "built"
    /\ \E solve \in SolveArgs, maxit \in MaxIterArgs :
         /\ model' = [model EXCEPT !.fit_params = FitParams("None", "1.0e-5", maxit, solve),
                                   !.W = KernelW(~model.fixed, model.kernel)]
         /\ IF Lower(solve) = IWLS
            THEN /\ arr' = FreshArrays
                 /\ i' = 0
                 /\ pc' = "loop"
                 /\ err' = err
            ELSE /\ pc' = "raised"
                 /\ err' = [kind |-> "NameError", loc |-> NoLoc]
                 /\ UNCHANGED <<arr, i>>
    /\ UNCHANGED <<flagArg, calls, args, rs, res, cache, ftv, gvars>>

Fit ==
    /\ pc = "built"
    /\ \E solve \in SolveArgs, maxit \in MaxIterArgs :
         /\ model' = [model EXCEPT !.fit_params = FitParams("None", "1.0e-5", maxit, solve)]
         /\ IF Lower(solve) = IWLS
            THEN /\ arr' = FreshArrays
                 /\ i' = 0
                 /\ pc' = "loop"
                 /\ err' = err
            ELSE /\ pc' = "raised"
                 /\ err' = [kind |-> "NameError", loc |-> NoLoc]
                 /\ UNCHANGED <<arr, i>>
    /\ UNCHANGED <<flagArg, calls, args, rs, res, cache, ftv, gvars>>

\* the arguments of the call of iwls for location l (lines 223-225): wi is
\* row l of W, ini_params, tol and max_iter are the arguments of fit(),
\* which fit_params holds
IwlsArgs(m, l) ==
    [y |-> m.y, X |-> m.X, family |-> m.family, offset |-> m.offset,
     y_fix |-> m.y_fix, ini_params |-> m.fit_params.ini_params,
     tol |-> m.fit_params.tol, max_iter |-> m.fit_params.max_iter, wi |-> m.W[l]]

\* a loop that calls the solver again for the same location when it raises
FitStepRetry ==
    /\ pc = "loop"
    /\ i < N
    /\ Len(calls) < 2 * N
    /\ \E rslt \in SolverResults(i) :
         /\ calls' = Append(calls, i)
         /\ args' = Append(args, IwlsArgs(model, i))
         /\ rs' = (i :> rslt) @@ rs
         /\ IF rslt.ok
            THEN /\ arr' = StepWrite(arr, i, model.X[i], rslt)
                 /\ i' = i + 1
            ELSE UNCHANGED <<arr, i>>
         /\ UNCHANGED <<pc, err>>
    /\ UNCHANGED <<model, flagArg, res, cache, ftv, gvars>>

\* a loop that goes on to the next location when the solver raises
FitStepSwallow ==
    /\ pc = "loop"
    /\ i < N
    /\ \E rslt \in SolverResults(i) :
         /\ calls' = Append(calls, i)
         /\ args' = Append(args, IwlsArgs(model, i))
         /\ rs' = (i :> rslt) @@ rs
         /\ arr' = IF rslt.ok THEN StepWrite(arr, i, model.X[i], rslt) ELSE arr
         /\ i' = i + 1
         /\ UNCHANGED <<pc, err>>
    /\ UNCHANGED <<model, flagArg, res, cache, ftv, gvars>>

FitStep ==
    /\ pc = "loop"
    /\ i < N
    /\ \E rslt \in SolverResults(i) :
         /\ calls' = Append(calls, i)
         /\ args' = Append(args, IwlsArgs(model, i))
         /\ rs' = (i :> rslt) @@ rs
         /\ IF rslt.ok
            THEN /\ arr' = StepWrite(arr, i, model.X[i], rslt)
                 /\ i' = i + 1
                 /\ UNCHANGED <<pc, err>>
            ELSE /\ pc' = "raised"
                 /\ err' = rslt.exc
                 /\ UNCHANGED <<arr, i>>
    /\ UNCHANGED <<model, flagArg, res, cache, ftv, gvars>>

\* ------------------------------------------------- GWRResults
\* the cached diagnostics a read of `name` evaluates, directly
Deps(name) ==
    CASE name = "sigma2_v1" -> {"tr_S"}
      [] name = "sigma2_v1v2" -> {"tr_S", "tr_STS"}
      [] name = "std_res" -> {"influ"}
      [] name = "cooksD" -> {"std_res", "influ", "tr_S"}
      [] name = "adj_alpha" -> {"tr_S", "tr_STS"}
      [] OTHER -> {}

\* np.trace(self.S*self.w)
TrS(S, w) == SumF([l \in Loc |-> FMul(S[l][l], w[l])], N)
\* a trace of S'S that leaves the weights out
TrSTSUnweighted(S, w) ==
    SumF([a \in Loc |-> SumF([j \in Loc |-> FMul(S[j][a], S[j][a])], N)], N)
\* np.trace(np.dot(self.S.T*self.w, self.S*self.w)): w is n*1, so row a of
\* S.T is scaled by w[a] and row j of S by w[j]
TrSTS(S, w) ==
    SumF([a \in Loc |->
            SumF([j \in Loc |-> FMul(FMul(S[j][a], w[a]), FMul(S[j][a], w[j]))], N)], N)

Sigma2V1(utu, n, trS) == FDiv(utu, FSub(FInt(n), trS))
Sigma2V1V2(utu, n, trS, trSTS) ==
    FDiv(utu, FAdd(FSub(FInt(n), FMul(FInt(2), trS)), trSTS))
StdRes(u, sig2, influ) ==
    [l \in Loc |-> FDiv(u[l], FSqrt(FMul(sig2, FSub(F1, influ[l]))))]
Bse(family, CCT, sig2) ==
    IF family \in {"Poisson", "Binomial"}
    THEN [l \in Loc |-> [c \in Col |-> FSqrt(CCT[l][c])]]
    ELSE [l \in Loc |-> [c \in Col |-> FSqrt(FMul(CCT[l][c], sig2))]]
CooksD(sr, influ, trS) ==
    [l \in Loc |-> FDiv(FMul(FMul(sr[l], sr[l]), influ[l]),
                        FMul(trS, FSub(F1, influ[l])))]
\* the levels with the 99% level of the docstring, .01, as the third
AlphaDocstring == <<FLit(1, 10), FLit(5, 100), FLit(1, 100)>>
\* alpha = np.array([.1, .05, .001])
Alpha == <<FLit(1, 10), FLit(5, 100), FLit(1, 1000)>>
AdjAlpha(k, trS, trSTS) ==
    LET pe == FSub(FMul(FInt(2), trS), trSTS)
    IN  [a \in 1..3 |-> FDiv(FMul(Alpha[a], FInt(k)), pe)]

\* a read of a cache_readonly attribute: the cached value if there is one,
\* else the value the method computes (its own reads going through the
\* cache in the same way)
RECURSIVE Val(_, _, _)
Look(name, r, c) == IF name \in DOMAIN c THEN c[name] ELSE Val(name, r, c)
Val(name, r, c) ==
    CASE name = "tr_S" -> TrS(r.S, r.w)
      [] name = "tr_STS" -> TrSTS(r.S, r.w)
      [] name = "sigma2_v1" -> Sigma2V1(r.utu, r.n, Look("tr_S", r, c))
      [] name = "sigma2_v1v2" ->
             Sigma2V1V2(r.utu, r.n, Look("tr_S", r, c), Look("tr_STS", r, c))
      [] name = "influ" -> [l \in Loc |-> r.S[l][l]]
      [] name = "std_res" -> StdRes(r.u, r.sig2, Look("influ", r, c))
      [] name = "bse" -> Bse(r.family, r.CCT, r.sig2)
      [] name = "cooksD" ->
             CooksD(Look("std_res", r, c), Look("influ", r, c), Look("tr_S", r, c))
      [] name = "adj_alpha" -> AdjAlpha(r.k, Look("tr_S", r, c), Look("tr_STS", r, c))

\* the names a read of `name` adds to the cache
RECURSIVE Need(_, _)
Need(name, c) ==
    IF name \in DOMAIN c THEN {}
    ELSE {name} \cup UNION {Need(d, c) : d \in Deps(name)}

\* the cache after a read of `name`
CacheAfter(name, r, c) ==
    [d \in DOMAIN c \cup Need(name, c) |-> Look(d, r, c)]

\* which estimator becomes sig2
SelectSig2Swapped(flag) == IF flag THEN "sigma2_v1v2" ELSE "sigma2_v1"
SelectSig2(flag) == IF flag THEN "sigma2_v1" ELSE "sigma2_v1v2"

\* GWRResults.__init__: the object and its cache
GWRResultsInit(m, params, predy, S, CCT, w) ==
    LET u == [l \in Loc |-> FSub(m.y[l], predy[l])]
        r0 == [made |-> TRUE, n |-> m.n, k |-> m.k, y |-> m.y, family |-> m.family,
               params |-> params, W |-> m.W, w |-> w, predy |-> predy, S |-> S,
               CCT |-> CCT, u |-> u,
               utu |-> SumF([l \in Loc |-> FMul(u[l], u[l])], N)]
        sel == SelectSig2(m.sigma2_v1)
    IN  [res |-> [made |-> TRUE, n |-> r0.n, k |-> r0.k, y |-> r0.y,
                  family |-> r0.family, params |-> params, W |-> r0.W, w |-> w,
                  predy |-> predy, S |-> S, CCT |-> CCT, u |-> u, utu |-> r0.utu,
                  sig2 |-> Look(sel, r0, NoCache)],
         cache |-> CacheAfter(sel, r0, NoCache)]

FitReturn ==
    /\ pc = "loop"
    /\ i = N
    /\ LET S == Rescale(arr.S, arr.z)
           g == GWRResultsInit(model, arr.params, arr.predy, S, arr.CCT, arr.w)
       IN  /\ res' = g.res
           /\ cache' = g.cache
    /\ pc' = "returned"
    /\ UNCHANGED <<model, flagArg, i, arr, calls, args, rs, err, ftv, gvars>>

\* a read of res.<name>
Read(name) ==
    /\ pc = "returned"
    /\ cache' = CacheAfter(name, res, cache)
    /\ UNCHANGED <<pc, model, flagArg, i, arr, calls, args, rs, err, res, ftv, gvars>>

ReadStdRes == Read("std_res")
ReadBse == Read("bse")
ReadCooksD == Read("cooksD")
ReadAdjAlpha == Read("adj_alpha")

\* the scalars filter_tvals is called with
AlphaArgs == {FInt(2), FInt(-3)}
\* The names line 606 reads.  `stats` is bound in the module only if
\* `from kernels import *` binds it (the module imports t from scipy.stats,
\* not stats): if not, looking it up raises NameError.  `critical` is a
\* local of the function, assigned by this very line, and read in
\* `1-critical` before it has a value: UnboundLocalError.
UnboundNameErrors == {"NameError", "UnboundLocalError"}

\* res.filter_tvals(alpha): line 604 halves |alpha|, line 606 raises; the
\* lines after it (the selection, the copy, the assignment of 0) never run
FilterTvals ==
    /\ pc = "returned"
    /\ \E alpha \in AlphaArgs, exc \in UnboundNameErrors :
         ftv' = [called |-> TRUE, alpha |-> alpha, exc |-> exc]
    /\ UNCHANGED <<pc, model, flagArg, i, arr, calls, args, rs, err, res, cache, gvars>>

Init ==
    /\ pc = "new"
    /\ model = NoModel
    /\ flagArg = "unset"
    /\ i = 0
    /\ arr = NoArr
    /\ calls = <<>>
    /\ args = <<>>
    /\ rs = <<>>
    /\ err = NoErr
    /\ res = NoRes
    /\ cache = NoCache
    /\ ftv = NoCall
    /\ NoGlm

Next ==
    \/ Construct
    \/ Fit
    \/ FitStep
    \/ FitReturn
    \/ FilterTvals

Spec == Init /\ [][Next]_vars

\* the step that leaves the loop after its last iteration; in Spec these
\* are the FitReturn steps, and one is possible whenever the loop is over
LoopExit == pc = "loop" /\ i = N /\ pc' = "returned"

\* fit() is sequential code: when a call of the solver ends the loop goes
\* on, and after the last iteration the statements after the loop run
SpecFair == Spec /\ WF_vars(FitStep) /\ WF_pc(LoopExit)

\* ------------------------------------------- reading the diagnostics
\* The results of a fit that returned: the loop body applied to what the
\* solver returned for the locations 0..n-1, in that order.
RECURSIVE LoopArrays(_, _, _)
LoopArrays(X, r, n) ==
    IF n = 0 THEN FreshArrays
    ELSE StepWrite(LoopArrays(X, r, n - 1), n - 1, X[n - 1], r[n - 1])

DiagInit ==
    \E fam \in Families, sarg \in {"unset", "true", "false"},
       r \in [Loc -> UNION {SolverOk(l) : l \in Loc}] :
      /\ \A l \in Loc : r[l] \in SolverOk(l)
      /\ LET m == [NewModel("bisquare", FALSE, fam, sarg, KernelW(FALSE, "bisquare"))
                     EXCEPT !.fit_params = FitParams("None", "1.0e-5", 20, IWLS)]
             a == LoopArrays(m.X, r, N)
             g == GWRResultsInit(m, a.params, a.predy, Rescale(a.S, a.z), a.CCT, a.w)
         IN  /\ pc = "returned"
             /\ model = m
             /\ flagArg = sarg
             /\ i = N
             /\ arr = a
             /\ calls = [p \in 1..N |-> p - 1]
             /\ args = [p \in 1..N |-> IwlsArgs(m, p - 1)]
             /\ rs = r
             /\ err = NoErr
             /\ res = g.res
             /\ cache = g.cache
             /\ ftv = NoCall
             /\ NoGlm

DiagNext ==
    \/ ReadStdRes
    \/ ReadBse
    \/ ReadCooksD
    \/ ReadAdjAlpha

SpecDiag == DiagInit /\ [][DiagNext]_vars

\* ----------------------------------- the loop's steps in any order
\* The loop body of fit() run once for every location, in any order.
AnyInit ==
    \E fam \in Families, sarg \in {"unset", "true", "false"} :
      /\ pc = "loop"
      /\ model = [NewModel("bisquare", FALSE, fam, sarg, KernelW(FALSE, "bisquare"))
                    EXCEPT !.fit_params = FitParams("None", "1.0e-5", 20, IWLS)]
      /\ flagArg = sarg
      /\ i = 0
      /\ arr = FreshArrays
      /\ calls = <<>>
      /\ args = <<>>
      /\ rs = <<>>
      /\ err = NoErr
      /\ res = NoRes
      /\ cache = NoCache
      /\ ftv = NoCall
      /\ NoGlm

AnyStep ==
    /\ pc = "loop"
    /\ \E l \in Loc \ DOMAIN rs :
         \E rslt \in SolverOk(l) :
           /\ calls' = Append(calls, l)
           /\ args' = Append(args, IwlsArgs(model, l))
           /\ rs' = (l :> rslt) @@ rs
           /\ arr' = StepWrite(arr, l, model.X[l], rslt)
           /\ i' = i + 1
    /\ UNCHANGED <<pc, model, flagArg, err, res, cache, ftv, gvars>>

AnyNext ==
    \/ AnyStep
    \/ FitReturn

SpecAnyOrder == AnyInit /\ [][AnyNext]_vars

\* ------------------------------------------------ GLMResults (glm.py)
\* bound on the computations of one diagnostic that are followed
MaxComp == 2
\* the values assigned to a diagnostic: two for utu, which another
\* diagnostic (dev_u) is computed from
GOverride(key) == IF key = "utu" THEN {FInt(9), FInt(5)} ELSE {FInt(9)}

GDeps(name, g) ==
    CASE name = "std_err" -> {"vm"}
      [] name = "dev_u" -> IF g.family = "Gaussian" THEN {"utu"} ELSE {}
      [] OTHER -> {}

\* np.sum(self.w*self.u**2)
SumWU2(g) == SumF([l \in Loc |-> FMul(g.w[l], FMul(g.u[l], g.u[l]))], N)
\* np.dot(xtw, self.x) with xtw = (self.x * self.w).T
XtWX(g) == [a \in Col |-> [b \in Col |->
              SumF([l \in Loc |-> FMul(FMul(g.x[l][a], g.w[l]), g.x[l][b])], N)]]
\* np.dot(self.x.T, self.x)
XtX(x) == [a \in Col |-> [b \in Col |->
             SumF([l \in Loc |-> FMul(x[l][a], x[l][b])], N)]]

\* what the getter of `name` computes when the cache has no such key; the
\* results of la.inv, np.sqrt(.).diagonal() and calc_dev_u are kept as the
\* expressions they are computed from
RECURSIVE GVal(_, _, _)
GLook(name, g, c) == IF name \in DOMAIN c THEN c[name] ELSE GVal(name, g, c)
GVal(name, g, c) ==
    CASE name = "utu" -> SumF([l \in Loc |-> FMul(g.u[l], g.u[l])], N)
      [] name = "sig2n" -> FDiv(SumWU2(g), FInt(g.n))
      [] name = "sig2n_k" -> FDiv(SumWU2(g), FInt(g.n - g.k))
      [] name = "vm" ->
             IF g.family = "Gaussian"
             THEN [t |-> "dot", a |-> g.sig2, b |-> g.xtxi]
             ELSE [t |-> "inv", v |-> XtWX(g)]
      [] name = "std_err" -> [t |-> "sqrt_diagonal", v |-> GLook("vm", g, c)]
      [] name = "dev_u" ->
             IF g.family = "Gaussian"
             THEN [t |-> "dev_gaussian", n |-> g.n, utu |-> GLook("utu", g, c)]
             ELSE IF g.family = "Poisson"
             THEN [t |-> "dev_poisson", y |-> g.y, predy |-> g.predy]
             ELSE F0

\* the keys a read of `name` computes and stores
RECURSIVE GNeed(_, _, _)
GNeed(name, g, c) ==
    IF name \in DOMAIN c THEN {}
    ELSE {name} \cup UNION {GNeed(d, g, c) : d \in GDeps(name, g)}

GCacheAfter(name, g, c) ==
    [d \in DOMAIN c \cup GNeed(name, g, c) |-> GLook(d, g, c)]

\* GLMResults.__init__(model, betas, predy, v, w)
GLMResultsInit(fam, flag, predy, w) ==
    LET g0 == [made |-> TRUE, n |-> N, k |-> K, y |-> YData, x |-> XData,
               family |-> fam, w |-> w, predy |-> predy,
               u |-> [l \in Loc |-> FSub(YData[l], predy[l])],
               xtxi |-> [t |-> "inv", v |-> XtX(XData)]]
        sel == IF flag THEN "sig2n" ELSE "sig2n_k"
    IN  [obj |-> [made |-> TRUE, n |-> g0.n, k |-> g0.k, y |-> g0.y, x |-> g0.x,
                  family |-> fam, w |-> w, predy |-> predy, u |-> g0.u,
                  xtxi |-> g0.xtxi, sig2 |-> GLook(sel, g0, <<>>)],
         cache |-> GCacheAfter(sel, g0, <<>>),
         computed |-> GNeed(sel, g0, <<>>)]

CacheInit ==
    /\ pc = "new"
    /\ model = NoModel
    /\ flagArg = "unset"
    /\ i = 0
    /\ arr = NoArr
    /\ calls = <<>>
    /\ args = <<>>
    /\ rs = <<>>
    /\ err = NoErr
    /\ res = NoRes
    /\ cache = NoCache
    /\ ftv = NoCall
    /\ \E fam \in {"Gaussian", "Poisson"}, flag \in BOOLEAN :
         LET g == GLMResultsInit(fam, flag, [l \in Loc |-> F1], [l \in Loc |-> FInt(2)])
         IN  /\ glm = g.obj
             /\ gcache = g.cache
             /\ ncomp = [key \in GKeys |-> IF key \in g.computed THEN 1 ELSE 0]
             /\ gout = NoAccess

\* a getter that computes the value and does not store it
GlmGetNoStore ==
    /\ glm.made
    /\ \E key \in GKeys :
         /\ ncomp[key] < MaxComp
         /\ ncomp' = [ncomp EXCEPT ![key] = @ + 1]
         /\ gout' = [op |-> "get", key |-> key, val |-> GVal(key, glm, gcache)]
         /\ gcache' = gcache
    /\ UNCHANGED <<glm, mvars>>

\* the getter of one of the properties: a read of glm.<key>
GlmGet ==
    /\ glm.made
    /\ \E key \in GKeys :
         /\ \A d \in GNeed(key, glm, gcache) : ncomp[d] < MaxComp
         /\ gcache' = GCacheAfter(key, glm, gcache)
         /\ ncomp' = [d \in GKeys |->
                        IF d \in GNeed(key, glm, gcache) THEN ncomp[d] + 1 ELSE ncomp[d]]
         /\ gout' = [op |-> "get", key |-> key, val |-> gcache'[key]]
    /\ UNCHANGED <<glm, mvars>>

\* a setter that drops every other entry of the cache
GlmSetInvalidates ==
    /\ glm.made
    /\ \E key \in GKeys : \E val \in GOverride(key) :
         /\ gcache' = (key :> val)
         /\ gout' = [op |-> "set", key |-> key, val |-> val]
    /\ UNCHANGED <<glm, ncomp, mvars>>

\* the setter: glm.<key> = val
GlmSet ==
    /\ glm.made
    /\ \E key \in GKeys : \E val \in GOverride(key) :
         /\ gcache' = [d \in DOMAIN gcache \cup {key} |->
                         IF d = key THEN val ELSE gcache[d]]
         /\ gout' = [op |-> "set", key |-> key, val |-> val]
    /\ UNCHANGED <<glm, ncomp, mvars>>

CacheNext ==
    \/ GlmGet
    \/ GlmSet

SpecCache == CacheInit /\ [][CacheNext]_vars

\* ------------------------------------------------------------ claims
\* the leverage row X[l] . C_l of the solve at location l
Leverage(l) == DotXC(model.X[l], rs[l].C)
\* the denominators of sigma2_v1 and sigma2_v1v2
DenV1(r) == FSub(FInt(r.n), TrS(r.S, r.w))
DenV1V2(r) == FAdd(FSub(FInt(r.n), FMul(FInt(2), TrS(r.S, r.w))), TrSTS(r.S, r.w))
\* u / sqrt(sig2 * (1 - S[l][l])) with the sig2 of the results object
StdResOfSig2(r) ==
    [l \in Loc |-> FDiv(r.u[l], FSqrt(FMul(r.sig2, FSub(F1, r.S[l][l]))))]
\* row l of every array of the loop
Rows(a, l) == <<a.params[l], a.predy[l], a.v[l], a.w[l], a.z[l], a.R[l], a.S[l],
                a.CCT[l]>>
\* the error _build_W raises by name for an unsupported kernel
UnsupportedKernelError == "TypeError"

\* C1: fit() returns a GWRResults only after the solver returned at every
\* location, and then row l of params, predy, w, CCT, z and S is what the
\* loop body wrote for location l; in every other outcome there is no
\* result object (fit raised).
C1_ReturnedIsComplete ==
    /\ res.made => pc = "returned"
    /\ pc = "returned" =>
         /\ Failed = {}
         /\ \A l \in Loc :
              /\ l \in DOMAIN rs
              /\ rs[l].ok
              /\ res.params[l] = rs[l].beta
              /\ res.predy[l] = rs[l].mu[l]
              /\ res.w[l] = rs[l].w[l]
              /\ res.CCT[l] = DiagCCt(rs[l].C)
              /\ arr.z[l] = rs[l].z
              /\ arr.S[l] = [j \in Loc |-> FMul(Leverage(l)[j], rs[l].z[j])]
\* C1, witness: fit() has returned after n solver calls.
C1_Witness ==
    /\ pc = "returned"
    /\ Len(calls) = N
    /\ res.made

\* C2 (as the claim states it): when the solver fails at location l, fit()
\* raises an error that carries the location index l.
C2_ErrorNamesLocation ==
    \A l \in Failed : pc = "raised" /\ err.loc = l

\* C3: where z[a][b] is zero, the S[a][b] of the returned result is not a
\* finite number.
C3_ZeroGivesNonFinite ==
    pc = "returned" =>
        \A a \in Loc, b \in Loc : IsZero(arr.z[a][b]) => ~IsFinite(res.S[a][b])
\* C3, witness: a returned result with a zero of z on and off the diagonal.
C3_Witness ==
    /\ pc = "returned"
    /\ \E a \in Loc, b \in Loc : a # b /\ IsZero(arr.z[a][b]) /\ IsNaN(res.S[a][b])
    /\ \E a \in Loc : IsZero(arr.z[a][a]) /\ IsNaN(res.S[a][a])

\* C4 (as the claim states it): an unsupported kernel name makes the
\* constructor raise the same kind of error, the one _build_W raises for it
\* by name, whether fixed is True or False.
C4_SameErrorKind ==
    pc = "ctor_raised" => err.kind = UnsupportedKernelError

\* C5 (as the claim states it): a results object exists only if the
\* denominator of the variance estimator evaluated for its sig2 is positive
\* (n - tr_S for sigma2_v1, n - 2 tr_S + tr_STS for sigma2_v1v2); otherwise
\* its construction raised.
C5_VarianceDenominatorPositive ==
    res.made => IF model.sigma2_v1 THEN FGtZero(DenV1(res)) ELSE FGtZero(DenV1V2(res))

\* C6 (as the claim states it): whenever adj_alpha has returned, its three
\* values are strictly positive.
C6_AdjAlphaPositive ==
    "adj_alpha" \in DOMAIN cache => \A a \in 1..3 : FGtZero(cache["adj_alpha"][a])

C9_OrderIndependent ==
    arr.alloc =>
      /\ \A l \in Loc :
           Rows(arr, l) = IF l \in DOMAIN rs
                          THEN Rows(StepWrite(FreshArrays, l, model.X[l], rs[l]), l)
                          ELSE Rows(FreshArrays, l)
      /\ DOMAIN rs = Loc => arr = LoopArrays(model.X, rs, N)
\* C9, witness: the steps have run in another order than 0..n-1, with
\* solver results that differ between locations, and fit() has returned.
C9_Witness ==
    /\ pc = "returned"
    /\ calls[1] # 0
    /\ \E a \in Loc, b \in Loc : rs[a].w # rs[b].w /\ rs[a].z # rs[b].z

\* C10 (as the claim states it): S[a][b] of the returned result is the
\* leverage entry divided by z[a][b].
C10_LeverageOverZ ==
    pc = "returned" =>
        \A a \in Loc, b \in Loc : res.S[a][b] = FDiv(Leverage(a)[b], arr.z[a][b])
\* C10 (amended): S[a][b] of the returned result is the leverage entry
\* multiplied by z[a][b], as stored in the loop, then multiplied by the
\* reciprocal of z[a][b].
C10_LeverageTimesZOverZ ==
    pc = "returned" =>
        \A a \in Loc, b \in Loc :
            res.S[a][b] = FMul(FMul(Leverage(a)[b], arr.z[a][b]), FDiv(F1, arr.z[a][b]))
\* C10, witness: a returned result with a non-zero entry of z and of the
\* leverage row where S is not the leverage entry divided by z.
C10_Witness ==
    /\ pc = "returned"
    /\ \E a \in Loc, b \in Loc :
         /\ ~IsZero(arr.z[a][b])
         /\ ~IsZero(Leverage(a)[b])
         /\ res.S[a][b] # FDiv(Leverage(a)[b], arr.z[a][b])

\* the sums the traces are stated as: sum_l S[l][l] w[l] and
\* sum_{a,j} w[a] w[j] S[j][a]^2
WeightedDiagSum(S, w) == SumF([l \in Loc |-> FMul(S[l][l], w[l])], N)
WeightedSquareSum(S, w) ==
    SumF([a \in Loc |->
            SumF([j \in Loc |-> FMul(FMul(w[a], w[j]), FMul(S[j][a], S[j][a]))], N)], N)

Pe(r) == FSub(FMul(FInt(2), TrS(r.S, r.w)), TrSTS(r.S, r.w))
\* the numbers of columns adj_alpha is compared over
KRange == 1..(K + 2)

\* C12: adj_alpha is three values, in this order .1 k / pe, .05 k / pe and
\* .001 k / pe with pe = 2 tr_S - tr_STS and k the number of columns; and
\* for a pe > 0 each of the three is strictly larger for a larger k.
C12_AdjAlphaValues ==
    (res.made /\ "adj_alpha" \in DOMAIN cache) =>
      /\ DOMAIN cache["adj_alpha"] = 1..3
      /\ cache["adj_alpha"][1] = FDiv(FMul(FLit(1, 10), FInt(res.k)), Pe(res))
      /\ cache["adj_alpha"][2] = FDiv(FMul(FLit(5, 100), FInt(res.k)), Pe(res))
      /\ cache["adj_alpha"][3] = FDiv(FMul(FLit(1, 1000), FInt(res.k)), Pe(res))
      /\ (IsFinite(Pe(res)) /\ FGtZero(Pe(res))) =>
           \A k1 \in KRange, k2 \in KRange :
             k1 < k2 =>
               \A a \in 1..3 :
                 FLt(AdjAlpha(k1, TrS(res.S, res.w), TrSTS(res.S, res.w))[a],
                     AdjAlpha(k2, TrS(res.S, res.w), TrSTS(res.S, res.w))[a])
\* C12, witness: adj_alpha has been read on a result with a finite pe > 0,
\* and its third value is not the one the level .01 gives.
C12_Witness ==
    /\ res.made
    /\ "adj_alpha" \in DOMAIN cache
    /\ IsFinite(Pe(res)) /\ FGtZero(Pe(res))
    /\ \A a \in 1..3 : IsFinite(cache["adj_alpha"][a]) /\ FGtZero(cache["adj_alpha"][a])
    /\ cache["adj_alpha"][3] # FDiv(FMul(FLit(1, 100), FInt(res.k)), Pe(res))

\* C13 (as the claim states it): a call of filter_tvals on a fitted results
\* object completes without raising.
C13_FilterTvalsReturns ==
    ftv.called => ftv.exc = "none"

\* the calls of the solver made so far are for the locations 0, 1, 2, ...
\* in this order, each with its row of W and the arguments of fit()
CallsInOrder ==
    /\ Len(calls) <= N
    /\ Len(args) = Len(calls)
    /\ \A p \in 1..Len(calls) :
         /\ calls[p] = p - 1
         /\ args[p].wi = model.W[p - 1]
         /\ args[p] = [args[1] EXCEPT !.wi = model.W[p - 1]]
         /\ args[p].y = model.y /\ args[p].X = model.X
         /\ args[p].family = model.family
         /\ args[p].offset = model.offset /\ args[p].y_fix = model.y_fix
         /\ args[p].ini_params = model.fit_params.ini_params
         /\ args[p].tol = model.fit_params.tol
         /\ args[p].max_iter = model.fit_params.max_iter

\* C14: the solver is called for the locations 0..n-1 in increasing order,
\* each once, with row i of W and otherwise the same arguments; a fit()
\* that returned made exactly n calls; and a fit() that has entered its
\* loop ends (it returns or raises) when every call of the solver ends.
C14_OneCallPerLocation ==
    /\ [](CallsInOrder /\ (pc = "returned" => Len(calls) = N))
    /\ (pc = "loop") ~> (pc \in {"returned", "raised"})
\* C14, witness: fit() has returned with a max_iter that is not the
\* default, for a W whose rows differ.
C14_Witness ==
    /\ pc = "returned"
    /\ Len(calls) = N /\ Len(args) = N
    /\ model.fit_params.max_iter # 20
    /\ \E a \in Loc, b \in Loc : args[a + 1].wi # args[b + 1].wi

\* the keys fit() stores in fit_params
FitParamKeys == {"ini_params", "tol", "max_iter", "solve"}

\* C15: once the model is constructed no step changes its W, y, X, offset,
\* y_fix, family, bw, kernel or fixed (nor any other field but fit_params),
\* whether fit() returns or raises; fit_params gets the four keys of fit()
\* and no other; and the W of the returned results is the W the constructor
\* built.
C15_FitFrame ==
    [][model.built =>
         /\ model' = [model EXCEPT !.fit_params = model'.fit_params]
         /\ model'.W = model.W /\ model'.y = model.y /\ model'.X = model.X
         /\ model'.offset = model.offset /\ model'.y_fix = model.y_fix
         /\ model'.family = model.family /\ model'.bw = model.bw
         /\ model'.kernel = model.kernel /\ model'.fixed = model.fixed
         /\ model'.W = BuildW(model.fixed, model.kernel).W
         /\ model'.fit_params # model.fit_params =>
                /\ pc = "built"
                /\ DOMAIN model'.fit_params = FitParamKeys
         /\ res'.made => res'.W = model.W]_vars
\* C15, witness: a fit() that returned, on a model with a fixed bandwidth,
\* whose W has rows that differ; the results hold that W.
C15_Witness ==
    /\ model.built
    /\ model.fixed
    /\ DOMAIN model.fit_params = FitParamKeys
    /\ pc = "returned"
    /\ res.made
    /\ res.W = model.W
    /\ \E a \in Loc, b \in Loc : model.W[a] # model.W[b]

\* C16: an assignment glm.<key> = v stores v under that key and leaves
\* every other entry of the cache, and the counts of computations, as they
\* were; an entry stays what it is through every step that is not an
\* assignment to its key; and a read of a key that has an entry returns
\* that entry.  Hence every read after an assignment of v returns v until
\* the next assignment to the same diagnostic, read before or not.
C16_OverridePersists ==
    [][\A key \in GKeys :
         /\ (gout'.op = "set" /\ gout'.key = key) =>
                /\ DOMAIN gcache' = DOMAIN gcache \cup {key}
                /\ gcache'[key] = gout'.val
                /\ \A d \in DOMAIN gcache \ {key} : gcache'[d] = gcache[d]
                /\ ncomp' = ncomp
         /\ (key \in DOMAIN gcache /\ ~(gout'.op = "set" /\ gout'.key = key)) =>
                /\ key \in DOMAIN gcache'
                /\ gcache'[key] = gcache[key]
         /\ (gout'.op = "get" /\ gout'.key = key /\ key \in DOMAIN gcache) =>
                gout'.val = gcache[key]]_vars
\* C16, witness: utu, computed once before, has been assigned and a read
\* returns the assigned value; dev_u, computed from the former utu, is
\* still cached as it was; and sig2n or sig2n_k, never computed, holds an
\* assigned value.
C16_Witness ==
    /\ glm.made
    /\ glm.family = "Gaussian"
    /\ gout = [op |-> "get", key |-> "utu", val |-> FInt(5)]
    /\ ncomp["utu"] = 1
    /\ "dev_u" \in DOMAIN gcache
    /\ gcache["dev_u"] = GVal("dev_u", glm, <<>>)
    /\ gcache["dev_u"] # GVal("dev_u", glm, gcache)
    /\ \E key \in {"sig2n", "sig2n_k", "vm"} :
         ncomp[key] = 0 /\ key \in DOMAIN gcache /\ gcache[key] = FInt(9)

\* x is a finite power of two (up to sign)
IsPow2(x) == IsFinite(x) /\ Abs(x.m) = 1
\* the finite x is within 4 units of roundoff (2^-MantBits each) of the
\* finite y: |x - y| * 2^MantBits <= 4 |y|, compared exactly
WithinRounding(x, y) ==
    LET e == IF x.e < y.e THEN x.e ELSE y.e
        xa == x.m * Pow2(x.e - e)
        ya == y.m * Pow2(y.e - e)
    IN  Abs(xa - ya) * Pow2(MantBits) <= 4 * Abs(ya)

\* C17 (as the claim states it): when no entry of z is zero, S[a][b] of
\* the returned result is the leverage entry (X[a] . C_a)[b], whatever z.
C17_ExactCancellation ==
    (pc = "returned" /\ \A a \in Loc, b \in Loc : ~IsZero(arr.z[a][b])) =>
        \A a \in Loc, b \in Loc : res.S[a][b] = Leverage(a)[b]
\* C17 (amended): where z[a][b] is finite and not zero, S[a][b] of the
\* returned result is the leverage entry up to the rounding of the three
\* operations r*z, 1/z and their product (at most 4 units of roundoff,
\* relative), and it is the leverage entry itself where z[a][b] is a power
\* of two.
C17_CancelsUpToRounding ==
    pc = "returned" =>
        \A a \in Loc, b \in Loc :
          (IsFinite(arr.z[a][b]) /\ ~IsZero(arr.z[a][b]) /\ IsFinite(Leverage(a)[b])) =>
            /\ IsFinite(res.S[a][b])
            /\ WithinRounding(res.S[a][b], Leverage(a)[b])
            /\ IsPow2(arr.z[a][b]) => res.S[a][b] = Leverage(a)[b]
\* C17, witness: a returned result, no entry of z zero, with an entry of S
\* that is not the leverage entry.
C17_Witness ==
    /\ pc = "returned"
    /\ \A a \in Loc, b \in Loc : IsFinite(arr.z[a][b]) /\ ~IsZero(arr.z[a][b])
    /\ \E a \in Loc, b \in Loc :
         /\ ~IsZero(Leverage(a)[b])
         /\ res.S[a][b] # Leverage(a)[b]
         /\ WithinRounding(res.S[a][b], Leverage(a)[b])

\* s is 'iwls' in some mix of upper and lower case
IsIwlsAnyCase(s) ==
    /\ Len(s) = 4
    /\ s[1] \in {"i", "I"} /\ s[2] \in {"w", "W"}
    /\ s[3] \in {"l", "L"} /\ s[4] \in {"s", "S"}
\* fit() has been called on the model
FitCalled == model.built /\ DOMAIN model.fit_params # {}

\* C18: after a call of fit() whose solve argument is not 'iwls' in any
\* case, fit_params holds the arguments, no array was created, no solver
\* call was made, fit() has raised and there is no results object; after a
\* call with 'iwls' in any case the arrays exist, the loop runs, and fit()
\* raises only if the solver did.
C18_SolveArgument ==
    FitCalled =>
      /\ DOMAIN model.fit_params = FitParamKeys
      /\ ~IsIwlsAnyCase(model.fit_params.solve) =>
           /\ pc = "raised"
           /\ err.kind = "NameError"
           /\ ~arr.alloc
           /\ calls = <<>>
           /\ ~res.made
      /\ IsIwlsAnyCase(model.fit_params.solve) =>
           /\ arr.alloc
           /\ pc \in {"loop", "returned", "raised"}
           /\ pc = "raised" => Failed # {}
           /\ pc = "returned" => Len(calls) = N
\* C18, witness: fit(solve='nr') has raised, with the arguments recorded
\* and no array created.
C18_Witness ==
    /\ FitCalled
    /\ model.fit_params.solve = <<"n", "r">>
    /\ pc = "raised"
    /\ ~arr.alloc
    /\ ~res.made
\* C18, the other case: fit(solve='IWLS') has returned.
C18_UpperCaseReturned ==
    /\ FitCalled
    /\ model.fit_params.solve = <<"I", "W", "L", "S">>
    /\ pc = "returned"
    /\ res.made
=============================================================================
